---- MODULE Spec2Model ----
(***************************************************************************)
(* Cruxz NFT service: the request-validation and response-shaping layer    *)
(* in front of the thirdweb SDK.                                           *)
(*                                                                         *)
(* Two server variants exist in the repository:                            *)
(*   "gated" - src/unnamed/part_001 (API-key gate, router under /api,      *)
(*             catch-all error middleware)                                 *)
(*   "open"  - src/src/index.js     (no gate, no error middleware)         *)
(* Both call the service functions of src/unnamed/part_000.                *)
(*                                                                         *)
(* Handlers share no mutable state, so one request in flight at a time     *)
(* covers every behaviour of a handler.  Each SDK call is one step whose   *)
(* outcome (value or exception) the environment chooses; sdkLog is the     *)
(* record an SDK test double would keep of the calls of this request.      *)
(*                                                                         *)
(* Strings are sequences of one-character strings.  Request fields range   *)
(* over the spec's MintRequest types: absent (undefined) or a string.      *)
(***************************************************************************)
EXTENDS Integers, Sequences, FiniteSets, TLC

(* ---------------------------- bounds ---------------------------------- *)
\* most whitespace characters put on either side of a private key
MaxPad == 1
\* largest token balance the chain reports for a wallet
MaxBalance == 3
\* the count of requests served stops at this number
MaxServed == 1

(* ------------------------ program constants --------------------------- *)
KeyLenBare == 64
KeyLenPrefixed == 66
AddrHexLen == 40
TokenTopicIndex == 3
HttpOk == 200
HttpBadRequest == 400
HttpUnauthorized == 401
HttpForbidden == 403
HttpNotFound == 404
HttpServerError == 500

(* --------------------------- JS strings ------------------------------- *)
Rep(c, n) == [k \in 1..n |-> c]

Whitespace == {" ", "\t"}

RECURSIVE TrimStart(_)
TrimStart(s) ==
  IF s # <<>> /\ Head(s) \in Whitespace THEN TrimStart(Tail(s)) ELSE s

RECURSIVE TrimEnd(_)
TrimEnd(s) ==
  IF s # <<>> /\ s[Len(s)] \in Whitespace
  THEN TrimEnd(SubSeq(s, 1, Len(s) - 1))
  ELSE s

\* String.prototype.trim
Trim(s) == TrimEnd(TrimStart(s))

\* String.prototype.startsWith
StartsWith(s, p) == Len(s) >= Len(p) /\ SubSeq(s, 1, Len(p)) = p

Clamp(x, n) == IF x < 0 THEN 0 ELSE IF x > n THEN n ELSE x

\* String.prototype.substring(a, b): 0-based, end exclusive, arguments
\* clamped to [0, length] and swapped when a > b
Substring(s, a, b) ==
  LET x == Clamp(a, Len(s))
      y == Clamp(b, Len(s))
      lo == IF x <= y THEN x ELSE y
      hi == IF x <= y THEN y ELSE x
  IN  SubSeq(s, lo + 1, hi)

\* String.prototype.substring(a)
SubstringFrom(s, a) == Substring(s, a, Len(s))

OxPrefix == <<"0", "x">>

(* ---------------------------- JS values ------------------------------- *)
\* a request field: undefined, or a string
Undefined == [def |-> FALSE, s |-> <<>>]
Str(s) == [def |-> TRUE, s |-> s]

\* !v is false
Truthy(v) == v.def /\ v.s # <<>>

\* the recurring guard  !v || v.trim() === ""
MissingOrBlank(v) == ~Truthy(v) \/ Trim(v.s) = <<>>

(* -------------------------- error messages ---------------------------- *)
\* An error message: the innermost text, the number interpolated into it
\* (-1 when there is none) and the prefixes wrapped around it, outermost
\* first.
Msg(text) == [wraps |-> <<>>, text |-> text, n |-> -1]
MsgN(text, n) == [wraps |-> <<>>, text |-> text, n |-> n]
NoMsg == Msg("")
\* new Error(`${prefix}${error.message}`)
Wrap(prefix, m) == [m EXCEPT !.wraps = <<prefix>> \o @]

(* --------------------------- Key Formatter ---------------------------- *)
\* privateKeyStr.length !== 64 && privateKeyStr.length !== 66
KeyLengthRejected(privateKeyStr) ==
  Len(privateKeyStr) # KeyLenBare /\ Len(privateKeyStr) # KeyLenPrefixed

\* privateKeyStr.startsWith("0x") ? privateKeyStr.substring(2) : privateKeyStr
FormatPrivateKey(privateKeyStr) ==
  IF StartsWith(privateKeyStr, OxPrefix)
  THEN SubstringFrom(privateKeyStr, 2)
  ELSE privateKeyStr

InvalidLengthText ==
  "Invalid private key length: ${length}. Expected 64 or 66 characters."

\* a message that leaves the length out
InvalidLengthMsgNoLength(privateKeyStr) == Msg(InvalidLengthText)

\* `Invalid private key length: ${privateKeyStr.length}. Expected ...`
InvalidLengthMsg(privateKeyStr) ==
  MsgN(InvalidLengthText, Len(privateKeyStr))

(* ------------------------- API-key middleware ------------------------- *)
\* a gate that tests the presence of the header alone
GateStatusPresenceOnly(apiKey, serverApiKey) ==
  IF Truthy(apiKey) THEN 0 ELSE HttpUnauthorized

\* validateApiKey: the status it answers with, or 0 when it calls next()
GateStatus(apiKey, serverApiKey) ==
  IF ~Truthy(apiKey) THEN HttpUnauthorized
  ELSE IF apiKey # serverApiKey THEN HttpForbidden
  ELSE 0

(* ----------------------------- responses ------------------------------ *)
\* a value that is undefined, or the string String(n) makes of a number
NoString == [type |-> "undefined", text |-> ""]
StringOf(n) == [type |-> "string", text |-> ToString(n)]

\* ContractInfo
NoContract ==
  [name |-> "", symbol |-> "", owner |-> "", totalSupply |-> NoString]

TokUndefined == [def |-> FALSE, v |-> ""]
Tok(v) == [def |-> TRUE, v |-> v]

NoMetadata == [name |-> <<>>, description |-> <<>>, attributes |-> <<>>]

\* what res.json(...) / the framework sent; status 0 = nothing sent yet.
\* A field of the JSON body that was not set keeps its default here, and
\* hasSuccess tells whether the body has a `success` field at all.
NoResp ==
  [status |-> 0, json |-> FALSE, hasSuccess |-> FALSE, success |-> FALSE,
   error |-> NoMsg, details |-> NoMsg, rstatus |-> "",
   tokenId |-> TokUndefined, transactionHash |-> "", to |-> Undefined,
   metadata |-> NoMetadata, wallet |-> <<>>, count |-> -1, nfts |-> <<>>,
   headers |-> {}, derived |-> FALSE, contract |-> NoContract, sends |-> 0]

\* an error body without the success field
FailNoSuccess(status, error) ==
  [NoResp EXCEPT !.status = status, !.json = TRUE, !.error = error,
                 !.sends = 1]

\* res.status(status).json({ success: false, error })
Fail(status, error) ==
  [NoResp EXCEPT !.status = status, !.json = TRUE, !.hasSuccess = TRUE,
                 !.success = FALSE, !.error = error, !.sends = 1]

\* res.status(status).json({ success: false, error, details })
FailDetails(status, error, details) ==
  [Fail(status, error) EXCEPT !.details = details]

\* res.json({ success: true, ... }): the fields are filled in by the caller
Success ==
  [NoResp EXCEPT !.status = HttpOk, !.json = TRUE, !.hasSuccess = TRUE,
                 !.success = TRUE, !.sends = 1]

(* ------------------------------ requests ------------------------------ *)
Servers == {"gated", "open"}

RoutesOf(server) ==
  IF server = "gated"
  THEN {"health", "contract", "prepare", "mint", "nftsPost", "nftsGet",
        "testKey", "other"}
  ELSE {"health", "contract", "prepare", "mint", "mintWithKey", "nftsGet",
        "testKey", "other"}

PostRoutes == {"prepare", "mint", "mintWithKey", "nftsPost", "testKey"}

ConfiguredKey == Str(<<"k", "1">>)
ApiKeys == {Undefined, Str(<<>>), Str(<<"k">>), Str(<<"k", "1", "1">>),
            ConfiguredKey}

\* a quote, a backslash and a character beyond ASCII
SpecialText == <<"\"", "\\", "U+00E9">>

Texts ==
  {Undefined, Str(<<>>), Str(<<" ">>), Str(<<"h", "i">>), Str(SpecialText)}

MkKey(lead, prefixed, n, trail) ==
  Rep(" ", lead) \o (IF prefixed THEN OxPrefix ELSE <<>>) \o Rep("a", n)
    \o Rep(" ", trail)

\* lengths of the part of a key after any prefix
KeyBodyLens ==
  {1, KeyLenBare - 2, KeyLenBare - 1, KeyLenBare, KeyLenBare + 1,
   KeyLenPrefixed}

StringKeys ==
  {Str(Rep(" ", k)) : k \in 0..MaxPad}
    \cup {Str(MkKey(lead, prefixed, n, trail)) :
            lead \in 0..MaxPad, prefixed \in BOOLEAN, n \in KeyBodyLens,
            trail \in 0..MaxPad}

PrivateKeys == {Undefined} \cup StringKeys

Hex40 ==
  <<"1", "2", "3", "4", "5", "6", "7", "8", "9", "0",
    "a", "b", "c", "d", "e", "f", "1", "2", "3", "4",
    "5", "6", "7", "8", "9", "0", "A", "B", "C", "D",
    "E", "F", "1", "2", "3", "4", "5", "6", "7", "8">>

GoodAddress == OxPrefix \o Hex40

AddressStrings ==
  {GoodAddress,
   OxPrefix \o SubSeq(Hex40, 1, AddrHexLen - 1),
   OxPrefix \o Hex40 \o <<"9">>,
   <<"1", "2">> \o Hex40,
   <<"0", "X">> \o Hex40,
   OxPrefix \o SubSeq(Hex40, 1, AddrHexLen - 1) \o <<"g">>,
   <<" ">> \o GoodAddress,
   <<" ">>,
   OxPrefix \o Rep("F", AddrHexLen)}

ToAddresses == {Undefined, Str(<<>>), Str(<<" ">>), Str(GoodAddress)}

\* new Date().toISOString()
Timestamps ==
  {<<"2", "0", "2", "5", "-", "0", "1", "-", "0", "1", "T", "0", "0", ":",
     "0", "0", ":", "0", "0", ".", "0", "0", "0", "Z">>}

NoReq ==
  [server |-> "", route |-> "", apiKey |-> Undefined, bodyOk |-> TRUE,
   text |-> Undefined, privateKey |-> Undefined, toAddress |-> Undefined,
   walletAddress |-> Undefined]

\* the requests a client can send to a server
Requests(server) ==
  LET base(route) == [NoReq EXCEPT !.server = server, !.route = route]
      simple == {base(r) : r \in {"health", "contract", "other"}}
      broken == {[base(r) EXCEPT !.bodyOk = FALSE] :
                   r \in PostRoutes \cap RoutesOf(server)}
      \* the prepare routes read text alone; a client may send more
      prepare == {[base("prepare") EXCEPT !.text = t, !.privateKey = k,
                                          !.toAddress = a] :
                    t \in Texts,
                    k \in {Undefined, Str(MkKey(0, FALSE, KeyLenBare, 0))},
                    a \in {Undefined, Str(GoodAddress)}}
      mints == {[base(r) EXCEPT !.text = t, !.privateKey = k,
                                !.toAddress = a] :
                  r \in {"mint", "mintWithKey"} \cap RoutesOf(server),
                  t \in Texts, k \in PrivateKeys, a \in ToAddresses}
      test == {[base("testKey") EXCEPT !.privateKey = k] : k \in PrivateKeys}
      post == {[base(r) EXCEPT !.walletAddress = w] :
                 r \in {"nftsPost"} \cap RoutesOf(server),
                 w \in {Undefined, Str(<<>>)}
                         \cup {Str(a) : a \in AddressStrings}}
      \* a path parameter is never absent or empty; the open server's
      \* route looks at nothing else, so three addresses show what it does
      get == {[base("nftsGet") EXCEPT !.walletAddress = Str(a)] :
                a \in IF server = "gated" THEN AddressStrings
                      ELSE {GoodAddress, <<" ">>, <<"1", "2">> \o Hex40}}
      all == simple \cup broken \cup prepare \cup mints \cup test \cup post
               \cup get
  IN  IF server = "open" THEN all
      ELSE {[r EXCEPT !.apiKey = k] : r \in all, k \in ApiKeys}

(* ------------------------------- state -------------------------------- *)
VARIABLES
  env,       \* process.env: the configured SERVER_API_KEY
  req,       \* the request in flight
  pc,        \* where its handling stands
  handler,   \* the route handler that was entered, "" when none
  resp,      \* the response sent
  sdkLog,    \* the SDK calls made for this request, in order
  metadata,  \* mintTextNFT: const metadata
  metadataUri,  \* mintTextNFT: const metadataUri
  formattedPrivateKey,  \* mintTextNFT and the key test route
  enumL,     \* local variables of getWalletNFTs
  infoL,     \* local variables of getContractInfo
  served,    \* requests this process has answered so far
  pending    \* getWalletNFTs: the reads issued and not yet settled

locals == <<metadata, metadataUri, formattedPrivateKey, enumL, infoL>>

vars == <<env, req, pc, handler, resp, sdkLog, locals, served, pending>>

(* --------------------------- Metadata Builder ------------------------- *)
\* const metadata = { name, description: description || "CRUXZ NFT",
\*                    attributes: [Text, Created At] }
CruxzNft == <<"C", "R", "U", "X", "Z", " ", "N", "F", "T">>

TraitText == <<"T", "e", "x", "t">>
TraitCreatedAt ==
  <<"C", "r", "e", "a", "t", "e", "d", " ", "A", "t">>

BuildMetadata(text, description, now) ==
  [name |-> CruxzNft,
   description |-> IF Truthy(description) THEN description.s ELSE CruxzNft,
   attributes |-> <<[trait_type |-> TraitText, value |-> text.s],
                    [trait_type |-> TraitCreatedAt, value |-> now]>>]

(* ------------------------ characters and bytes ------------------------ *)
\* the printable ASCII characters in code order, from " " (32) to "~";
\* the grave accent (96) is written as the name of its code point
AsciiChars ==
  <<" ", "!", "\"", "#", "$", "%", "&", "'", "(", ")", "*", "+", ",", "-",
    ".", "/", "0", "1", "2", "3", "4", "5", "6", "7", "8", "9", ":", ";",
    "<", "=", ">", "?", "@", "A", "B", "C", "D", "E", "F", "G", "H", "I",
    "J", "K", "L", "M", "N", "O", "P", "Q", "R", "S", "T", "U", "V", "W",
    "X", "Y", "Z", "[", "\\", "]", "^", "_", "U+0060", "a", "b", "c", "d", "e",
    "f", "g", "h", "i", "j", "k", "l", "m", "n", "o", "p", "q", "r", "s",
    "t", "u", "v", "w", "x", "y", "z", "{", "|", "}", "~">>

FirstAscii == 32

\* the characters beyond ASCII that occur here, by code point; a
\* character is written as the name of its code point
Latin1Names ==
  (169 :> "U+00A9") @@ (195 :> "U+00C3") @@ (233 :> "U+00E9")

\* what a decoder puts in place of bytes that are no character
ReplacementChar == "U+FFFD"

\* String.prototype.codePointAt(0) of a one-character string
CodePoint(c) ==
  IF \E n \in DOMAIN Latin1Names : Latin1Names[n] = c
  THEN CHOOSE n \in DOMAIN Latin1Names : Latin1Names[n] = c
  ELSE FirstAscii - 1
         + CHOOSE k \in 1..Len(AsciiChars) : AsciiChars[k] = c

\* String.fromCodePoint(n)
CharOf(n) ==
  IF n \in DOMAIN Latin1Names THEN Latin1Names[n]
  ELSE IF n >= FirstAscii /\ n < FirstAscii + Len(AsciiChars)
  THEN AsciiChars[n - FirstAscii + 1]
  ELSE ReplacementChar

\* the concatenation of a sequence of sequences
RECURSIVE Concat(_)
Concat(ss) ==
  IF ss = <<>> THEN <<>>
  ELSE IF Len(ss) = 1 THEN ss[1]
  ELSE LET half == Len(ss) \div 2 IN
         Concat(SubSeq(ss, 1, half)) \o Concat(SubSeq(ss, half + 1, Len(ss)))

\* Buffer.from(string): the UTF-8 bytes of the string (code points below
\* 2048, one or two bytes each)
Utf8Encode(s) ==
  Concat([k \in 1..Len(s) |->
            LET c == CodePoint(s[k]) IN
              IF c < 128 THEN <<c>>
              ELSE <<192 + (c \div 64), 128 + (c % 64)>>])

\* a decoder that takes every byte for one character (latin1)
Latin1Decode(b) == [k \in 1..Len(b) |-> CharOf(b[k])]

\* buffer.toString(): the string of the UTF-8 bytes; a byte that starts no
\* valid sequence becomes the replacement character
Utf8Decode(b) ==
  LET lead(k) == b[k] >= 194 /\ b[k] < 224
      cont(k) == b[k] >= 128 /\ b[k] < 192
  IN  Concat([k \in 1..Len(b) |->
                IF b[k] < 128 THEN <<CharOf(b[k])>>
                ELSE IF lead(k) /\ k < Len(b) /\ cont(k + 1)
                THEN <<CharOf((b[k] - 192) * 64 + (b[k + 1] - 128))>>
                ELSE IF cont(k) /\ k > 1 /\ lead(k - 1)
                THEN <<>>   \* the second byte of the character before
                ELSE <<ReplacementChar>>])

(* ------------------------------- base64 ------------------------------- *)
Base64Chars ==
  <<"A", "B", "C", "D", "E", "F", "G", "H", "I", "J", "K", "L", "M", "N",
    "O", "P", "Q", "R", "S", "T", "U", "V", "W", "X", "Y", "Z", "a", "b",
    "c", "d", "e", "f", "g", "h", "i", "j", "k", "l", "m", "n", "o", "p",
    "q", "r", "s", "t", "u", "v", "w", "x", "y", "z", "0", "1", "2", "3",
    "4", "5", "6", "7", "8", "9", "+", "/">>

Base64Char(n) == Base64Chars[n + 1]

\* the four characters of up to three bytes
Base64Group(b) ==
  IF Len(b) = 1
  THEN <<Base64Char(b[1] \div 4), Base64Char((b[1] % 4) * 16), "=", "=">>
  ELSE IF Len(b) = 2
  THEN <<Base64Char(b[1] \div 4),
         Base64Char((b[1] % 4) * 16 + (b[2] \div 16)),
         Base64Char((b[2] % 16) * 4), "=">>
  ELSE <<Base64Char(b[1] \div 4),
         Base64Char((b[1] % 4) * 16 + (b[2] \div 16)),
         Base64Char((b[2] % 16) * 4 + (b[3] \div 64)),
         Base64Char(b[3] % 64)>>

\* the pieces of at most n elements a sequence falls into
Chunks(x, n) ==
  [k \in 1..((Len(x) + n - 1) \div n) |->
     SubSeq(x, (k - 1) * n + 1,
            IF k * n < Len(x) THEN k * n ELSE Len(x))]

\* buffer.toString("base64")
Base64Encode(b) ==
  Concat([k \in 1..Len(Chunks(b, 3)) |-> Base64Group(Chunks(b, 3)[k])])

Sextet(c) == (CHOOSE k \in 1..Len(Base64Chars) : Base64Chars[k] = c) - 1

\* the bytes of up to four sextets: four give three bytes, three give
\* two, two give one
SextetsToBytes(x) ==
  IF Len(x) < 2 THEN <<>>
  ELSE IF Len(x) = 2 THEN <<x[1] * 4 + (x[2] \div 16)>>
  ELSE IF Len(x) = 3
  THEN <<x[1] * 4 + (x[2] \div 16), (x[2] % 16) * 16 + (x[3] \div 4)>>
  ELSE <<x[1] * 4 + (x[2] \div 16), (x[2] % 16) * 16 + (x[3] \div 4),
         (x[3] % 4) * 64 + x[4]>>

\* Buffer.from(text, "base64"): decoding stops at the first "=", and
\* characters outside the alphabet are passed over
Base64Decode(t) ==
  LET stop == IF \E k \in 1..Len(t) : t[k] = "="
              THEN CHOOSE k \in 1..Len(t) :
                     t[k] = "=" /\ \A j \in 1..(k - 1) : t[j] # "="
              ELSE Len(t) + 1
      body == SelectSeq(SubSeq(t, 1, stop - 1),
                        LAMBDA c : \E k \in 1..Len(Base64Chars) :
                                     Base64Chars[k] = c)
      groups == Chunks([k \in 1..Len(body) |-> Sextet(body[k])], 4)
  IN  Concat([k \in 1..Len(groups) |-> SextetsToBytes(groups[k])])

(* -------------------------------- JSON -------------------------------- *)
KeyName == <<"n", "a", "m", "e">>
KeyDescription ==
  <<"d", "e", "s", "c", "r", "i", "p", "t", "i", "o", "n">>
KeyAttributes ==
  <<"a", "t", "t", "r", "i", "b", "u", "t", "e", "s">>
KeyTraitType ==
  <<"t", "r", "a", "i", "t", "_", "t", "y", "p", "e">>
KeyValue == <<"v", "a", "l", "u", "e">>
NullLiteral == <<"n", "u", "l", "l">>

\* the characters of a string between its quotes: JSON.stringify puts a
\* backslash before a quote and before a backslash
EscapeJson(s) ==
  Concat([k \in 1..Len(s) |->
            IF s[k] \in {"\"", "\\"} THEN <<"\\", s[k]>> ELSE <<s[k]>>])

JsonString(s) == <<"\"">> \o EscapeJson(s) \o <<"\"">>

JsonMember(key, s) == JsonString(key) \o <<":">> \o JsonString(s)

JsonAttribute(a) ==
  <<"{">> \o JsonMember(KeyTraitType, a.trait_type) \o <<",">>
    \o JsonMember(KeyValue, a.value) \o <<"}">>

RECURSIVE JsonAttributes(_)
JsonAttributes(attrs) ==
  IF attrs = <<>> THEN <<>>
  ELSE JsonAttribute(Head(attrs))
         \o (IF Len(attrs) > 1 THEN <<",">> ELSE <<>>)
         \o JsonAttributes(Tail(attrs))

\* JSON.stringify(metadata): the members in the order of the literal, no
\* white space
JsonStringify(md) ==
  <<"{">> \o JsonMember(KeyName, md.name) \o <<",">>
    \o JsonMember(KeyDescription, md.description) \o <<",">>
    \o JsonString(KeyAttributes) \o <<":", "[">>
    \o JsonAttributes(md.attributes) \o <<"]", "}">>

\* a parsed JSON value: null, a string, an array of values, or an object
\* with its keys and their values in order
JsonNull == [kind |-> "null", s |-> <<>>, keys |-> <<>>, items |-> <<>>]
JsonStr(s) == [JsonNull EXCEPT !.kind = "string", !.s = s]
JsonArray(items) == [JsonNull EXCEPT !.kind = "array", !.items = items]
JsonObject(keys, items) ==
  [JsonNull EXCEPT !.kind = "object", !.keys = keys, !.items = items]

\* the result of parsing from a position: the value and the position after
\* it, or a syntax error
SyntaxError == [ok |-> FALSE, node |-> JsonNull, next |-> 0]
Parsed(node, next) == [ok |-> TRUE, node |-> node, next |-> next]

\* a string from the character after its opening quote
RECURSIVE ParseString(_, _, _)
ParseString(t, i, acc) ==
  IF i > Len(t) THEN SyntaxError
  ELSE IF t[i] = "\"" THEN Parsed(JsonStr(acc), i + 1)
  ELSE IF t[i] = "\\"
  THEN IF i + 1 <= Len(t) /\ t[i + 1] \in {"\"", "\\", "/"}
       THEN ParseString(t, i + 2, Append(acc, t[i + 1]))
       ELSE SyntaxError
  ELSE ParseString(t, i + 1, Append(acc, t[i]))

RECURSIVE ParseValue(_, _)
RECURSIVE ParseItems(_, _, _)
RECURSIVE ParseMembers(_, _, _, _)

\* the values of an array from the first one, up to the closing bracket
ParseItems(t, i, acc) ==
  LET v == ParseValue(t, i) IN
    IF ~v.ok \/ v.next > Len(t) THEN SyntaxError
    ELSE IF t[v.next] = ","
    THEN ParseItems(t, v.next + 1, Append(acc, v.node))
    ELSE IF t[v.next] = "]"
    THEN Parsed(JsonArray(Append(acc, v.node)), v.next + 1)
    ELSE SyntaxError

\* the members of an object from the first key, up to the closing brace
ParseMembers(t, i, keys, items) ==
  IF i > Len(t) \/ t[i] # "\"" THEN SyntaxError
  ELSE LET k == ParseString(t, i + 1, <<>>) IN
    IF ~k.ok \/ k.next > Len(t) \/ t[k.next] # ":" THEN SyntaxError
    ELSE LET v == ParseValue(t, k.next + 1) IN
      IF ~v.ok \/ v.next > Len(t) THEN SyntaxError
      ELSE IF t[v.next] = ","
      THEN ParseMembers(t, v.next + 1, Append(keys, k.node.s),
                        Append(items, v.node))
      ELSE IF t[v.next] = "}"
      THEN Parsed(JsonObject(Append(keys, k.node.s), Append(items, v.node)),
                  v.next + 1)
      ELSE SyntaxError

\* one value of a text without white space: a string, an array, an object
\* or null
ParseValue(t, i) ==
  IF i > Len(t) THEN SyntaxError
  ELSE IF t[i] = "\"" THEN ParseString(t, i + 1, <<>>)
  ELSE IF t[i] = "["
  THEN IF i + 1 <= Len(t) /\ t[i + 1] = "]"
       THEN Parsed(JsonArray(<<>>), i + 2)
       ELSE ParseItems(t, i + 1, <<>>)
  ELSE IF t[i] = "{"
  THEN IF i + 1 <= Len(t) /\ t[i + 1] = "}"
       THEN Parsed(JsonObject(<<>>, <<>>), i + 2)
       ELSE ParseMembers(t, i + 1, <<>>, <<>>)
  ELSE IF SubSeq(t, i, i + Len(NullLiteral) - 1) = NullLiteral
  THEN Parsed(JsonNull, i + Len(NullLiteral))
  ELSE SyntaxError

\* JSON.parse(text): the whole text must be one value
JsonParse(t) ==
  LET r == ParseValue(t, 1) IN
    IF r.ok /\ r.next = Len(t) + 1 THEN r ELSE SyntaxError

\* node[key] as a string, "" when the member is missing or no string
StringMember(node, key) ==
  IF \E k \in 1..Len(node.keys) :
       node.keys[k] = key /\ node.items[k].kind = "string"
  THEN node.items[CHOOSE k \in 1..Len(node.keys) :
                    node.keys[k] = key /\ node.items[k].kind = "string"].s
  ELSE <<>>

\* node.attributes || []
ArrayMember(node, key) ==
  IF \E k \in 1..Len(node.keys) :
       node.keys[k] = key /\ node.items[k].kind = "array"
  THEN node.items[CHOOSE k \in 1..Len(node.keys) :
                    node.keys[k] = key /\ node.items[k].kind = "array"].items
  ELSE <<>>

\* name, description and attributes as getWalletNFTs reads them off the
\* parsed metadata
MetadataOfJson(node) ==
  [name |-> StringMember(node, KeyName),
   description |-> StringMember(node, KeyDescription),
   attributes |->
     LET items == ArrayMember(node, KeyAttributes) IN
       [k \in 1..Len(items) |->
          [trait_type |-> StringMember(items[k], KeyTraitType),
           value |-> StringMember(items[k], KeyValue)]]]

(* ------------------------- what the SDK returns ----------------------- *)
\* a token URI as tokenURI() returns it: whether it starts with
\* "data:application/json;base64,", and what JSON.parse makes of the rest
NoUri == [prefixed |-> FALSE, parse |-> "none", meta |-> NoMetadata]

DataPrefix ==
  <<"d", "a", "t", "a", ":", "a", "p", "p", "l", "i", "c", "a", "t", "i",
    "o", "n", "/", "j", "s", "o", "n", ";", "b", "a", "s", "e", "6", "4",
    ",">>

\* `data:application/json;base64,${Buffer.from(JSON.stringify(metadata))
\*                                  .toString("base64")}`
MetadataUri(md) ==
  DataPrefix \o Base64Encode(Utf8Encode(JsonStringify(md)))

\* tokenUri.replace("data:application/json;base64,", "") of a URI that
\* starts with the prefix, decoded as text
DecodedText(tokenUri) ==
  Utf8Decode(Base64Decode(SubstringFrom(tokenUri, Len(DataPrefix))))

\* what getWalletNFTs makes of the string tokenURI() returned
UriOf(tokenUri) ==
  IF ~StartsWith(tokenUri, DataPrefix) THEN NoUri
  ELSE LET r == JsonParse(DecodedText(tokenUri)) IN
    IF ~r.ok
    THEN [prefixed |-> TRUE, parse |-> "invalid", meta |-> NoMetadata]
    ELSE IF r.node.kind = "null"
    THEN [prefixed |-> TRUE, parse |-> "null", meta |-> NoMetadata]
    ELSE [prefixed |-> TRUE, parse |-> "object",
          meta |-> MetadataOfJson(r.node)]

\* the strings the chain holds as token URIs: a URI this service minted,
\* a data URI of the text null, one of a broken JSON text, and a URI of
\* another scheme
ChainUris ==
  {MetadataUri(BuildMetadata(Str(SpecialText), Undefined, now)) :
     now \in Timestamps}
    \cup {DataPrefix \o Base64Encode(Utf8Encode(NullLiteral)),
          DataPrefix \o Base64Encode(Utf8Encode(<<"{">>)),
          <<"i", "p", "f", "s", ":", "/", "/", "x">>}

Uris == {UriOf(u) : u \in ChainUris}

TokenIds == {7, 9}

\* one log of a transaction receipt; topics may be missing altogether
TopicNames == <<"0xddf2", "0xfrom", "0xto", "0x07", "0xextra">>
Log(k) == [topicsDef |-> TRUE, topics |-> SubSeq(TopicNames, 1, k)]
LogNoTopics == [topicsDef |-> FALSE, topics |-> <<>>]
Logs == {LogNoTopics} \cup {Log(k) : k \in 0..Len(TopicNames)}

\* the value sendTransaction resolves to: receipt and receipt.logs may be
\* missing
NoResult == [transactionHash |-> "", receiptDef |-> FALSE, logsDef |-> FALSE,
             logs |-> <<>>]
Result(logsDef, logs) ==
  [transactionHash |-> "0xhash", receiptDef |-> TRUE, logsDef |-> logsDef,
   logs |-> logs]
Results ==
  {[NoResult EXCEPT !.transactionHash = "0xhash"],
   Result(FALSE, <<>>), Result(TRUE, <<>>)}
    \cup {Result(TRUE, <<l>>) : l \in Logs}
    \cup {Result(TRUE, <<l, Log(TokenTopicIndex + 1)>>) :
            l \in {LogNoTopics, Log(TokenTopicIndex)}}

\* one entry of sdkLog
Call(fn, method, ok) ==
  [fn |-> fn, method |-> method, ok |-> ok, idx |-> -1, key |-> <<>>,
   tok |-> -1, uri |-> NoUri, result |-> NoResult]

SdkError(fn) == Msg(fn)

(* ------------------------ token id of a mint -------------------------- *)
\* let tokenId = "unknown";
\* try { const events = result.receipt.logs;
\*       tokenId = events && events.length > 0 ? events[0].topics[3]
\*                                             : "unknown";
\* } catch (error) { }
ExtractTokenId(result) ==
  IF ~result.receiptDef THEN Tok("unknown")              \* .logs throws
  ELSE IF ~result.logsDef \/ result.logs = <<>> THEN Tok("unknown")
  ELSE IF ~result.logs[1].topicsDef THEN Tok("unknown")  \* [3] throws
  ELSE IF Len(result.logs[1].topics) > TokenTopicIndex
       THEN Tok(result.logs[1].topics[TokenTopicIndex + 1])
       ELSE TokUndefined

(* ---------------------- one token of a wallet ------------------------- *)
\* a name: literal characters, then the token id interpolated (-1: none)
Name(s) == [s |-> s, n |-> -1]
\* `Token #${tokenId}`
TokenName(tokenId) ==
  [s |-> <<"T", "o", "k", "e", "n", " ", "#">>, n |-> tokenId]

NoMetadataText ==
  <<"N", "o", " ", "m", "e", "t", "a", "d", "a", "t", "a", " ",
    "a", "v", "a", "i", "l", "a", "b", "l", "e">>

\* the code from the startsWith test to nfts.push: does it throw?
DecodeThrows(tokenUri) ==
  tokenUri.prefixed /\ tokenUri.parse \in {"invalid", "null"}

\* the entry nfts.push receives
WalletNft(tokenId, tokenUri) ==
  LET md ==
        IF tokenUri.prefixed THEN tokenUri.meta
        ELSE [name |-> TokenName(tokenId).s, description |-> NoMetadataText,
              attributes |-> <<>>]
  IN  [tokenId |-> tokenId,
       name |-> IF tokenUri.prefixed /\ md.name # <<>>
                THEN Name(md.name) ELSE TokenName(tokenId),
       description |-> md.description,
       attributes |-> md.attributes]

(* --------------------------- local variables -------------------------- *)
NoEnum == [balanceNum |-> -1, i |-> 0, tokenId |-> -1, nfts |-> <<>>]

NoInfo == [name |-> "", symbol |-> "", owner |-> ""]

Init ==
  /\ env \in {[SERVER_API_KEY |-> k] : k \in {Undefined, ConfiguredKey}}
  /\ req = NoReq
  /\ pc = "idle"
  /\ handler = ""
  /\ resp = NoResp
  /\ sdkLog = <<>>
  /\ metadata = NoMetadata
  /\ metadataUri = <<>>
  /\ formattedPrivateKey = <<>>
  /\ enumL = NoEnum
  /\ infoL = NoInfo
  /\ served = 0
  /\ pending = <<>>

(* --------------------- arrival and the middleware --------------------- *)
\* the response is sent and the handler returns
Finish(r) ==
  /\ resp' = r
  /\ pc' = "done"

\* a request arrives; the first middleware of its server runs next
Receive ==
  /\ pc = "idle"
  /\ \E server \in Servers :
       \E r \in Requests(server) :
         /\ req' = r
         /\ pc' = IF server = "gated" THEN "gate" ELSE "parse"
  /\ UNCHANGED <<env, served, pending, handler, resp, sdkLog, locals>>

\* app.use((req, res, next) => validateApiKey(req, res, next))
ValidateApiKey ==
  /\ pc = "gate"
  /\ LET status == GateStatus(req.apiKey, env.SERVER_API_KEY) IN
       IF status = HttpUnauthorized
       THEN Finish(Fail(HttpUnauthorized, Msg("API key is required")))
       ELSE IF status = HttpForbidden
       THEN Finish(Fail(HttpForbidden, Msg("Invalid API key")))
       ELSE /\ pc' = "parse"
            /\ UNCHANGED resp
  /\ UNCHANGED <<env, served, pending, req, handler, sdkLog, locals>>

\* app.use(express.json()): a body that does not parse is passed to the
\* error handlers with next(err)
ParseBody ==
  /\ pc = "parse"
  /\ pc' = IF req.bodyOk THEN "route" ELSE "error"
  /\ UNCHANGED <<env, served, pending, req, handler, resp, sdkLog, locals>>

\* app.use((err, req, res, next) => ...) of the gated server
ErrorMiddleware ==
  /\ pc = "error"
  /\ req.server = "gated"
  /\ Finish(Fail(HttpServerError, Msg("Internal Server Error")))
  /\ UNCHANGED <<env, served, pending, req, handler, sdkLog, locals>>

\* the open server registers no error middleware: the framework's own
\* handler answers with the error's status and an HTML page
FrameworkError ==
  /\ pc = "error"
  /\ req.server = "open"
  /\ Finish([NoResp EXCEPT !.status = HttpBadRequest, !.sends = 1])
  /\ UNCHANGED <<env, served, pending, req, handler, sdkLog, locals>>

\* no route matches: the framework's 404 page
NotFound ==
  /\ pc = "route"
  /\ req.route = "other"
  /\ Finish([NoResp EXCEPT !.status = HttpNotFound, !.sends = 1])
  /\ UNCHANGED <<env, served, pending, req, handler, sdkLog, locals>>

\* app.get("/health"): the gated server adds message and timestamp
Health ==
  /\ pc = "route"
  /\ req.route = "health"
  /\ handler' = "health"
  /\ Finish([NoResp EXCEPT !.status = HttpOk, !.json = TRUE,
                           !.rstatus = "healthy", !.sends = 1])
  /\ UNCHANGED <<env, served, pending, req, sdkLog, locals>>

(* ------------------------ POST /api/test/private-key ------------------ *)
\* the error the route answers 400 with before it derives an account,
\* NoMsg when the key passes
TestKeyError(privateKey) ==
  IF ~Truthy(privateKey) THEN Msg("Missing required field: privateKey")
  ELSE IF KeyLengthRejected(Trim(privateKey.s))
       THEN InvalidLengthMsg(Trim(privateKey.s))
       ELSE NoMsg

TestKeyRoute ==
  /\ pc = "route"
  /\ req.route = "testKey"
  /\ handler' = "testKey"
  /\ LET error == TestKeyError(req.privateKey) IN
       IF error # NoMsg
       THEN /\ Finish(Fail(HttpBadRequest, error))
            /\ UNCHANGED formattedPrivateKey
       ELSE /\ formattedPrivateKey' = FormatPrivateKey(Trim(req.privateKey.s))
            /\ pc' = "test_account"
            /\ UNCHANGED resp
  /\ UNCHANGED <<env, served, pending, req, sdkLog, metadata, metadataUri, enumL,
                 infoL>>

\* try { const account = privateKeyToAccount(...); res.json(...) }
\* catch (error) { res.status(400).json(...) }
TestKeyAccount ==
  /\ pc = "test_account"
  /\ \E ok \in BOOLEAN :
       /\ sdkLog' = Append(sdkLog,
            [Call("privateKeyToAccount", "", ok)
               EXCEPT !.key = formattedPrivateKey])
       /\ IF ok
          THEN Finish([Success EXCEPT !.derived = TRUE])
          ELSE Finish(FailDetails(HttpBadRequest,
                                  Msg("Invalid private key format"),
                                  SdkError("privateKeyToAccount")))
  /\ UNCHANGED <<env, served, pending, req, handler, locals>>

(* ------------------------------ mintTextNFT --------------------------- *)
\* a prepare route that passes performMint = true
PerformMintAlways(route) == TRUE

\* the arguments the routes call mintTextNFT with: the prepare routes pass
\* (client, text, false) and leave privateKey and toAddress at null
PerformMint(route) == route # "prepare"

MintPrivateKey(r) == IF r.route = "prepare" THEN Undefined ELSE r.privateKey

MintToAddress(r) == IF r.route = "prepare" THEN Undefined ELSE r.toAddress

\* what the checks of mintTextNFT between metadata and account throw,
\* NoMsg when they pass
MintCheckError(privateKey, toAddress) ==
  IF MissingOrBlank(privateKey)
  THEN Msg("Private key is required for minting but not provided")
  ELSE IF MissingOrBlank(toAddress)
  THEN Msg("Wallet address (toAddress) is required for minting but not provided")
  ELSE IF KeyLengthRejected(Trim(privateKey.s))
  THEN InvalidLengthMsg(Trim(privateKey.s))
  ELSE NoMsg

MintPrefix == "Failed to mint NFT: "

\* an exception inside mintTextNFT: its catch wraps the message, the
\* catch of mintTextNFTWithPrivateKey wraps it again, and the catch of the
\* route answers 500 with the message as details
MintThrown(route, message) ==
  LET inner == Wrap(MintPrefix, message)
      outer == IF route = "mintWithKey" THEN Wrap(MintPrefix, inner)
               ELSE inner
  IN  FailDetails(HttpServerError,
                  Msg(IF route = "prepare" THEN "Failed to prepare NFT"
                      ELSE "Failed to mint NFT"),
                  outer)

\* the prepare routes' answer to  return { status: "prepared", ... }
PreparedResponse(md) ==
  [Success EXCEPT !.rstatus = "prepared", !.metadata = md]

\* the mint routes' answer to  return { status: "minted", tokenId, ... }
MintedResponse(tokenId, result, toAddress, md) ==
  [Success EXCEPT !.rstatus = "minted", !.tokenId = tokenId,
                  !.transactionHash = result.transactionHash,
                  !.to = toAddress, !.metadata = md]

\* const contract = await getContract(...), then everything up to the
\* creation of the account
MintGetContract ==
  /\ pc = "mint_getContract"
  /\ \E ok \in BOOLEAN, now \in Timestamps :
       /\ sdkLog' = Append(sdkLog, Call("getContract", "", ok))
       /\ LET md == BuildMetadata(req.text, Undefined, now)
              error == MintCheckError(MintPrivateKey(req), MintToAddress(req))
          IN  IF ~ok
              THEN /\ Finish(MintThrown(req.route, SdkError("getContract")))
                   /\ UNCHANGED <<metadata, metadataUri, formattedPrivateKey>>
              ELSE IF ~PerformMint(req.route)
              THEN /\ Finish(PreparedResponse(md))
                   /\ metadata' = md
                   /\ metadataUri' = MetadataUri(md)
                   /\ UNCHANGED formattedPrivateKey
              ELSE IF error # NoMsg
              THEN /\ Finish(MintThrown(req.route, error))
                   /\ metadata' = md
                   /\ metadataUri' = MetadataUri(md)
                   /\ UNCHANGED formattedPrivateKey
              ELSE /\ metadata' = md
                   /\ metadataUri' = MetadataUri(md)
                   /\ formattedPrivateKey' =
                        FormatPrivateKey(Trim(MintPrivateKey(req).s))
                   /\ pc' = "mint_account"
                   /\ UNCHANGED resp
  /\ UNCHANGED <<env, served, pending, req, handler, enumL, infoL>>

\* const account = privateKeyToAccount({ privateKey: formattedPrivateKey })
MintAccount ==
  /\ pc = "mint_account"
  /\ \E ok \in BOOLEAN :
       /\ sdkLog' = Append(sdkLog,
            [Call("privateKeyToAccount", "", ok)
               EXCEPT !.key = formattedPrivateKey])
       /\ IF ok
          THEN pc' = "mint_prepare" /\ UNCHANGED resp
          ELSE Finish(MintThrown(req.route, SdkError("privateKeyToAccount")))
  /\ UNCHANGED <<env, served, pending, req, handler, locals>>

\* const transaction = await prepareContractCall(...)
MintPrepare ==
  /\ pc = "mint_prepare"
  /\ \E ok \in BOOLEAN :
       /\ sdkLog' = Append(sdkLog, Call("prepareContractCall", "mintTo", ok))
       /\ IF ok
          THEN pc' = "mint_send" /\ UNCHANGED resp
          ELSE Finish(MintThrown(req.route, SdkError("prepareContractCall")))
  /\ UNCHANGED <<env, served, pending, req, handler, locals>>

\* a send that is attempted a second time when the first attempt fails
MintSendRetry ==
  /\ pc = "mint_send"
  /\ \/ /\ sdkLog' = Append(sdkLog, Call("sendTransaction", "", FALSE))
        /\ IF \E k \in 1..Len(sdkLog) : sdkLog[k].fn = "sendTransaction"
           THEN Finish(MintThrown(req.route, SdkError("sendTransaction")))
           ELSE UNCHANGED <<pc, resp>>
     \/ \E result \in Results :
          /\ sdkLog' = Append(sdkLog,
               [Call("sendTransaction", "", TRUE) EXCEPT !.result = result])
          /\ Finish(MintedResponse(ExtractTokenId(result), result,
                                   MintToAddress(req), metadata))
  /\ UNCHANGED <<env, served, pending, req, handler, locals>>

\* const result = await sendTransaction(...), the token id, the return
\* and the route's response
MintSend ==
  /\ pc = "mint_send"
  /\ \/ /\ sdkLog' = Append(sdkLog, Call("sendTransaction", "", FALSE))
        /\ Finish(MintThrown(req.route, SdkError("sendTransaction")))
     \/ \E result \in Results :
          /\ sdkLog' = Append(sdkLog,
               [Call("sendTransaction", "", TRUE) EXCEPT !.result = result])
          /\ Finish(MintedResponse(ExtractTokenId(result), result,
                                   MintToAddress(req), metadata))
  /\ UNCHANGED <<env, served, pending, req, handler, locals>>

(* ------------------------------ mint routes --------------------------- *)
\* the 400 of the prepare routes, NoMsg when the text passes
PrepareRouteError(text) ==
  IF ~Truthy(text) THEN Msg("Missing required field: text") ELSE NoMsg

\* the checks of POST /api/mint/text without the tests for blank strings
MintRouteErrorNoTrim(text, privateKey, toAddress) ==
  IF ~Truthy(text) THEN Msg("Missing required field: text")
  ELSE IF ~Truthy(privateKey) THEN Msg("Missing required field: privateKey")
  ELSE IF ~Truthy(toAddress)
  THEN Msg("Missing required field: toAddress (wallet address)")
  ELSE NoMsg

\* the 400 of POST /api/mint/text, NoMsg when the fields pass
MintRouteError(text, privateKey, toAddress) ==
  IF ~Truthy(text) THEN Msg("Missing required field: text")
  ELSE IF MissingOrBlank(privateKey)
  THEN Msg("Missing required field: privateKey")
  ELSE IF MissingOrBlank(toAddress)
  THEN Msg("Missing required field: toAddress (wallet address)")
  ELSE NoMsg

\* the 400 of POST /api/mint/text/with-private-key
MintWithKeyRouteError(text, privateKey, toAddress) ==
  IF ~Truthy(text) THEN Msg("Missing required field: text")
  ELSE IF ~Truthy(privateKey) THEN Msg("Missing required field: privateKey")
  ELSE IF MissingOrBlank(toAddress)
  THEN Msg("Missing required field: toAddress (wallet address)")
  ELSE NoMsg

\* what mintTextNFTWithPrivateKey throws before it calls mintTextNFT
WithKeyCheckError(privateKey, toAddress) ==
  IF MissingOrBlank(privateKey) THEN Msg("Private key is required for minting")
  ELSE IF MissingOrBlank(toAddress)
  THEN Msg("Wallet address (toAddress) is required for minting")
  ELSE NoMsg

PrepareRoute ==
  /\ pc = "route"
  /\ req.route = "prepare"
  /\ handler' = "prepare"
  /\ LET error == PrepareRouteError(req.text) IN
       IF error # NoMsg
       THEN Finish(Fail(HttpBadRequest, error))
       ELSE pc' = "mint_getContract" /\ UNCHANGED resp
  /\ UNCHANGED <<env, served, pending, req, sdkLog, locals>>

MintRoute ==
  /\ pc = "route"
  /\ req.route = "mint"
  /\ handler' = "mint"
  /\ LET error == MintRouteError(req.text, req.privateKey, req.toAddress) IN
       IF error # NoMsg
       THEN Finish(Fail(HttpBadRequest, error))
       ELSE pc' = "mint_getContract" /\ UNCHANGED resp
  /\ UNCHANGED <<env, served, pending, req, sdkLog, locals>>

\* the route's checks, then the checks of mintTextNFTWithPrivateKey, whose
\* exception the wrapper's catch and then the route's catch handle
MintWithKeyRoute ==
  /\ pc = "route"
  /\ req.route = "mintWithKey"
  /\ handler' = "mintWithKey"
  /\ LET error == MintWithKeyRouteError(req.text, req.privateKey,
                                        req.toAddress)
         thrown == WithKeyCheckError(req.privateKey, req.toAddress)
     IN  IF error # NoMsg
         THEN Finish(Fail(HttpBadRequest, error))
         ELSE IF thrown # NoMsg
         THEN Finish(FailDetails(HttpServerError, Msg("Failed to mint NFT"),
                                 Wrap(MintPrefix, thrown)))
         ELSE pc' = "mint_getContract" /\ UNCHANGED resp
  /\ UNCHANGED <<env, served, pending, req, sdkLog, locals>>

(* ------------------------------ getWalletNFTs ------------------------- *)
HexChars ==
  {"0", "1", "2", "3", "4", "5", "6", "7", "8", "9",
   "a", "b", "c", "d", "e", "f", "A", "B", "C", "D", "E", "F"}

\* the pattern without its anchors: /0x[a-fA-F0-9]{40}/
IsEthAddressUnanchored(walletAddress) ==
  \E k \in 1..Len(walletAddress) :
    /\ k + Len(OxPrefix) + AddrHexLen - 1 <= Len(walletAddress)
    /\ SubSeq(walletAddress, k, k + Len(OxPrefix) - 1) = OxPrefix
    /\ \A j \in (k + Len(OxPrefix))..(k + Len(OxPrefix) + AddrHexLen - 1) :
         walletAddress[j] \in HexChars

\* /^0x[a-fA-F0-9]{40}$/.test(walletAddress)
IsEthAddress(walletAddress) ==
  /\ Len(walletAddress) = Len(OxPrefix) + AddrHexLen
  /\ StartsWith(walletAddress, OxPrefix)
  /\ \A k \in (Len(OxPrefix) + 1)..Len(walletAddress) :
       walletAddress[k] \in HexChars

\* the address as it came
MaskWalletNone(walletAddress) == walletAddress

\* walletAddress.substring(0, 6) + "..." +
\* walletAddress.substring(walletAddress.length - 4)
MaskWallet(walletAddress) ==
  Substring(walletAddress, 0, 6) \o <<".", ".", ".">>
    \o SubstringFrom(walletAddress, Len(walletAddress) - 4)

\* the 400 of the wallet routes, NoMsg when the address passes; the open
\* server's route has no format check
WalletRouteError(server, route, walletAddress) ==
  IF ~Truthy(walletAddress)
  THEN Msg(IF route = "nftsPost"
           THEN "Missing required field: walletAddress"
           ELSE "Missing required parameter: walletAddress")
  ELSE IF server = "gated" /\ ~IsEthAddress(walletAddress.s)
  THEN Msg("Invalid wallet address format")
  ELSE NoMsg

DeprecatedHeader ==
  <<"X-Deprecated-API",
    "This endpoint is deprecated. Please use POST /api/nfts instead.">>

RateLimitHeaders ==
  {<<"X-RateLimit-Limit", "100">>, <<"X-RateLimit-Remaining", "99">>}

\* res.setHeader("X-Deprecated-API", ...) comes first in the gated GET
\* route, so every response of that handler carries it
RouteHeaders(server, route, r) ==
  IF server = "gated" /\ route = "nftsGet"
  THEN [r EXCEPT !.headers = @ \cup {DeprecatedHeader}]
  ELSE r

\* the wallet routes' answer to the array getWalletNFTs returns
WalletResponse(server, route, walletAddress, nfts) ==
  RouteHeaders(server, route,
    [Success EXCEPT
       !.wallet = IF server = "gated" THEN MaskWallet(walletAddress)
                  ELSE walletAddress,
       !.count = Len(nfts),
       !.nfts = nfts,
       !.headers = IF route = "nftsPost" THEN RateLimitHeaders ELSE {}])

FetchPrefix == "Failed to fetch NFTs: "

\* an exception outside the loop: the catch of getWalletNFTs wraps it and
\* the catch of the route answers 500
FetchThrown(server, route, message) ==
  RouteHeaders(server, route,
    FailDetails(HttpServerError, Msg("Failed to fetch NFTs"),
                Wrap(FetchPrefix, message)))

WalletRoute ==
  /\ pc = "route"
  /\ req.route \in {"nftsPost", "nftsGet"}
  /\ handler' = req.route
  /\ LET error == WalletRouteError(req.server, req.route, req.walletAddress)
     IN  IF error # NoMsg
         THEN Finish(RouteHeaders(req.server, req.route,
                                  Fail(HttpBadRequest, error)))
         ELSE pc' = "enum_getContract" /\ UNCHANGED resp
  /\ UNCHANGED <<env, served, pending, req, sdkLog, locals>>

EnumGetContract ==
  /\ pc = "enum_getContract"
  /\ \E ok \in BOOLEAN :
       /\ sdkLog' = Append(sdkLog, Call("getContract", "", ok))
       /\ IF ok
          THEN pc' = "enum_balance" /\ UNCHANGED resp
          ELSE Finish(FetchThrown(req.server, req.route,
                                  SdkError("getContract")))
  /\ UNCHANGED <<env, served, pending, req, handler, locals>>

\* a catch that leaves the loop
BreakAfterError(i, balanceNum) == balanceNum

\* the index the loop goes on with after the catch of one token's error

NextIndexAfterError(i, balanceNum) == i + 1

\* the loop's i++ and test with nfts as it now is: another round, or
\* return nfts and the route's response
EnumLoop(next, nfts) ==
  /\ enumL' = [enumL EXCEPT !.i = next, !.nfts = nfts]
  /\ IF next < enumL.balanceNum
     THEN pc' = "enum_token" /\ UNCHANGED resp
     ELSE Finish(WalletResponse(req.server, req.route, req.walletAddress.s,
                                nfts))

\* const balance = await readContract(balanceOf); Number(balance)
EnumBalance ==
  /\ pc = "enum_balance"
  /\ \/ /\ sdkLog' = Append(sdkLog, Call("readContract", "balanceOf", FALSE))
        /\ Finish(FetchThrown(req.server, req.route,
                              SdkError("readContract")))
        /\ UNCHANGED enumL
     \/ \E balance \in 0..MaxBalance :
          /\ sdkLog' = Append(sdkLog,
               [Call("readContract", "balanceOf", TRUE) EXCEPT !.tok = balance])
          /\ enumL' = [enumL EXCEPT !.balanceNum = balance, !.i = 0]
          /\ IF 0 < balance
             THEN pc' = "enum_token" /\ UNCHANGED resp
             ELSE Finish(WalletResponse(req.server, req.route,
                                        req.walletAddress.s, <<>>))
  /\ UNCHANGED <<env, served, pending, req, handler, metadata, metadataUri,
                 formattedPrivateKey, infoL>>

\* one read of the loop as it is issued
Read(method, i) == [method |-> method, idx |-> i]

\* a read that is issued while the function goes on to the next statement
FireAndForget(method) ==
  IF method = "tokenOfOwnerByIndex" THEN "enum_uri" ELSE "enum_uri_await"

\* await readContract(...): the function is suspended until the read
\* settles
AwaitRead(method) ==
  IF method = "tokenOfOwnerByIndex" THEN "enum_token_await"
  ELSE "enum_uri_await"

\* readContract(tokenOfOwnerByIndex(walletAddress, i)) is issued
EnumTokenOfOwner ==
  /\ pc = "enum_token"
  /\ pending' = Append(pending, Read("tokenOfOwnerByIndex", enumL.i))
  /\ pc' = AwaitRead("tokenOfOwnerByIndex")
  /\ UNCHANGED <<env, served, req, handler, resp, sdkLog, locals>>

\* const tokenId = await ...: the read settles
EnumTokenOfOwnerSettled ==
  /\ pc = "enum_token_await"
  /\ pending' = SelectSeq(pending,
                          LAMBDA r : r # Read("tokenOfOwnerByIndex", enumL.i))
  /\ \/ /\ sdkLog' = Append(sdkLog,
             [Call("readContract", "tokenOfOwnerByIndex", FALSE)
                EXCEPT !.idx = enumL.i])
        /\ EnumLoop(NextIndexAfterError(enumL.i, enumL.balanceNum),
                    enumL.nfts)
     \/ \E tokenId \in TokenIds :
          /\ sdkLog' = Append(sdkLog,
               [Call("readContract", "tokenOfOwnerByIndex", TRUE)
                  EXCEPT !.idx = enumL.i, !.tok = tokenId])
          /\ enumL' = [enumL EXCEPT !.tokenId = tokenId]
          /\ pc' = "enum_uri"
          /\ UNCHANGED resp
  /\ UNCHANGED <<env, served, req, handler, metadata, metadataUri,
                 formattedPrivateKey, infoL>>

\* readContract(tokenURI(tokenId)) is issued
EnumTokenUri ==
  /\ pc = "enum_uri"
  /\ pending' = Append(pending, Read("tokenURI", enumL.i))
  /\ pc' = AwaitRead("tokenURI")
  /\ UNCHANGED <<env, served, req, handler, resp, sdkLog, locals>>

\* const tokenUri = await ...: the read settles; then the decoding of the
\* metadata and nfts.push
EnumTokenUriSettled ==
  /\ pc = "enum_uri_await"
  /\ pending' = SelectSeq(pending, LAMBDA r : r # Read("tokenURI", enumL.i))
  /\ \/ /\ sdkLog' = Append(sdkLog,
             [Call("readContract", "tokenURI", FALSE)
                EXCEPT !.idx = enumL.i, !.tok = enumL.tokenId])
        /\ EnumLoop(NextIndexAfterError(enumL.i, enumL.balanceNum),
                    enumL.nfts)
     \/ \E tokenUri \in Uris :
          /\ sdkLog' = Append(sdkLog,
               [Call("readContract", "tokenURI", TRUE)
                  EXCEPT !.idx = enumL.i, !.tok = enumL.tokenId,
                         !.uri = tokenUri])
          /\ IF DecodeThrows(tokenUri)
             THEN EnumLoop(NextIndexAfterError(enumL.i, enumL.balanceNum),
                           enumL.nfts)
             ELSE EnumLoop(enumL.i + 1,
                           Append(enumL.nfts,
                                  WalletNft(enumL.tokenId, tokenUri)))
  /\ UNCHANGED <<env, served, req, handler, metadata, metadataUri,
                 formattedPrivateKey, infoL>>

(* ----------------------------- getContractInfo ------------------------ *)
InfoPrefix == "Failed to get contract info: "

\* an exception in getContractInfo outside the inner try: its catch wraps
\* the message and the catch of the route answers 500
InfoThrown(message) ==
  FailDetails(HttpServerError, Msg("Failed to fetch contract info"),
              Wrap(InfoPrefix, message))

ContractRoute ==
  /\ pc = "route"
  /\ req.route = "contract"
  /\ handler' = "contract"
  /\ pc' = "info_getContract"
  /\ UNCHANGED <<env, served, pending, req, resp, sdkLog, locals>>

InfoGetContract ==
  /\ pc = "info_getContract"
  /\ \E ok \in BOOLEAN :
       /\ sdkLog' = Append(sdkLog, Call("getContract", "", ok))
       /\ IF ok
          THEN pc' = "info_name" /\ UNCHANGED resp
          ELSE Finish(InfoThrown(SdkError("getContract")))
  /\ UNCHANGED <<env, served, pending, req, handler, locals>>

InfoName ==
  /\ pc = "info_name"
  /\ \E ok \in BOOLEAN :
       /\ sdkLog' = Append(sdkLog, Call("readContract", "name", ok))
       /\ IF ok
          THEN /\ infoL' = [infoL EXCEPT !.name = "Cruxz"]
               /\ pc' = "info_symbol"
               /\ UNCHANGED resp
          ELSE /\ Finish(InfoThrown(SdkError("readContract")))
               /\ UNCHANGED infoL
  /\ UNCHANGED <<env, served, pending, req, handler, metadata, metadataUri,
                 formattedPrivateKey, enumL>>

\* the symbol read, and  let owner = "unknown"
InfoSymbol ==
  /\ pc = "info_symbol"
  /\ \E ok \in BOOLEAN :
       /\ sdkLog' = Append(sdkLog, Call("readContract", "symbol", ok))
       /\ IF ok
          THEN /\ infoL' = [infoL EXCEPT !.symbol = "CRUXZ",
                                         !.owner = "unknown"]
               /\ pc' = "info_owner"
               /\ UNCHANGED resp
          ELSE /\ Finish(InfoThrown(SdkError("readContract")))
               /\ UNCHANGED infoL
  /\ UNCHANGED <<env, served, pending, req, handler, metadata, metadataUri,
                 formattedPrivateKey, enumL>>

\* an owner read outside the inner try: its failure ends the operation
InfoOwnerThrows ==
  /\ pc = "info_owner"
  /\ \E ok \in BOOLEAN :
       /\ sdkLog' = Append(sdkLog, Call("readContract", "owner", ok))
       /\ IF ok
          THEN /\ infoL' = [infoL EXCEPT !.owner = "0xowner"]
               /\ pc' = "info_supply"
               /\ UNCHANGED resp
          ELSE /\ Finish(InfoThrown(SdkError("readContract")))
               /\ UNCHANGED infoL
  /\ UNCHANGED <<env, served, pending, req, handler, metadata, metadataUri,
                 formattedPrivateKey, enumL>>

\* try { owner = await readContract(owner) } catch (error) { log }
InfoOwner ==
  /\ pc = "info_owner"
  /\ \E ok \in BOOLEAN :
       /\ sdkLog' = Append(sdkLog, Call("readContract", "owner", ok))
       /\ infoL' = IF ok THEN [infoL EXCEPT !.owner = "0xowner"] ELSE infoL
  /\ pc' = "info_supply"
  /\ UNCHANGED <<env, served, pending, req, handler, resp, metadata, metadataUri,
                 formattedPrivateKey, enumL>>

TotalSupplies == {0, 12}

\* the totalSupply read, the return and the route's response
InfoSupply ==
  /\ pc = "info_supply"
  /\ \/ /\ sdkLog' = Append(sdkLog,
             Call("readContract", "totalSupply", FALSE))
        /\ Finish(InfoThrown(SdkError("readContract")))
     \/ \E totalSupply \in TotalSupplies :
          /\ sdkLog' = Append(sdkLog,
               [Call("readContract", "totalSupply", TRUE)
                  EXCEPT !.tok = totalSupply])
          /\ Finish([Success EXCEPT !.contract =
               [name |-> infoL.name, symbol |-> infoL.symbol,
                owner |-> infoL.owner,
                totalSupply |-> StringOf(totalSupply)]])
  /\ UNCHANGED <<env, served, pending, req, handler, locals>>

\* the response is on the wire; the next request can be looked at
Reset ==
  /\ pc = "done"
  /\ req' = NoReq
  /\ pc' = "idle"
  /\ handler' = ""
  /\ resp' = NoResp
  /\ sdkLog' = <<>>
  /\ metadata' = NoMetadata
  /\ metadataUri' = <<>>
  /\ formattedPrivateKey' = <<>>
  /\ enumL' = NoEnum
  /\ infoL' = NoInfo
  /\ served' = IF served < MaxServed THEN served + 1 ELSE served
  /\ pending' = <<>>
  /\ UNCHANGED env

Next ==
  \/ Receive
  \/ ValidateApiKey
  \/ ParseBody
  \/ ErrorMiddleware
  \/ FrameworkError
  \/ NotFound
  \/ Health
  \/ ContractRoute
  \/ InfoGetContract
  \/ InfoName
  \/ InfoSymbol
  \/ InfoOwner
  \/ InfoSupply
  \/ PrepareRoute
  \/ MintRoute
  \/ MintWithKeyRoute
  \/ MintGetContract
  \/ MintAccount
  \/ MintPrepare
  \/ MintSend
  \/ WalletRoute
  \/ EnumGetContract
  \/ EnumBalance
  \/ EnumTokenOfOwner
  \/ EnumTokenOfOwnerSettled
  \/ EnumTokenUri
  \/ EnumTokenUriSettled
  \/ TestKeyRoute
  \/ TestKeyAccount
  \/ Reset

Spec == Init /\ [][Next]_vars

(* ------------------------------- claims ------------------------------- *)
Done == pc = "done"

\* the request was answered with `status` before any route handler ran and
\* without an SDK call
RejectedAtGate(status) ==
  /\ Done
  /\ resp.status = status
  /\ resp.success = FALSE
  /\ handler = ""
  /\ sdkLog = <<>>

SdkCalls(fns) == SelectSeq(sdkLog, LAMBDA c : c.fn \in fns)

NamesMissingField ==
  \/ /\ resp.error = Msg("Missing required field: text")
     /\ ~Truthy(req.text)
  \/ /\ resp.error = Msg("Missing required field: privateKey")
     /\ MissingOrBlank(req.privateKey)
  \/ /\ resp.error = Msg("Missing required field: toAddress (wallet address)")
     /\ MissingOrBlank(req.toAddress)

\* C2: a request to POST /api/mint/text whose privateKey or toAddress is
\* missing or blank after trimming is answered 400 with an error naming a
\* missing field, and no SDK call is made for it.
C2_MintMissingField ==
  (handler = "mint"
     /\ (MissingOrBlank(req.privateKey) \/ MissingOrBlank(req.toAddress))) =>
    /\ Done
    /\ resp.status = HttpBadRequest
    /\ resp.success = FALSE
    /\ NamesMissingField
    /\ sdkLog = <<>>

\* a whitespace-only privateKey with text and toAddress in order
C2_Witness ==
  /\ handler = "mint"
  /\ Truthy(req.text)
  /\ Truthy(req.privateKey)
  /\ Trim(req.privateKey.s) = <<>>
  /\ ~MissingOrBlank(req.toAddress)
  /\ resp.status = HttpBadRequest
  /\ resp.error = Msg("Missing required field: privateKey")

SigningCalls == {"privateKeyToAccount", "prepareContractCall", "sendTransaction"}

\* C3: a prepare invocation with a non-empty text never derives an account,
\* builds a transaction or sends one, and whether or not privateKey and
\* toAddress are supplied it returns status "prepared" once the contract
\* handle is resolved (getContract is its only SDK call).
C3_PrepareNeverSigns ==
  (handler = "prepare" /\ Truthy(req.text)) =>
    /\ SdkCalls(SigningCalls) = <<>>
    /\ Done =>
         /\ Len(sdkLog) = 1
         /\ sdkLog[1].fn = "getContract"
         /\ sdkLog[1].ok =>
              /\ resp.status = HttpOk
              /\ resp.success
              /\ resp.rstatus = "prepared"

\* a prepare request that carries a key and an address all the same
C3_Witness ==
  /\ handler = "prepare"
  /\ Done
  /\ Truthy(req.privateKey)
  /\ Truthy(req.toAddress)
  /\ resp.rstatus = "prepared"
  /\ resp.metadata.attributes[1].value = <<"h", "i">>

TokenReads == SelectSeq(sdkLog, LAMBDA c : c.method = "tokenOfOwnerByIndex")

\* the tokenURI reads whose token made it into the result
GoodUriReads ==
  SelectSeq(sdkLog, LAMBDA c : c.method = "tokenURI" /\ c.ok
                                 /\ ~DecodeThrows(c.uri))

BalanceRead == SelectSeq(sdkLog, LAMBDA c : c.method = "balanceOf" /\ c.ok)

\* C4: once balanceOf has returned n, every index 0..n-1 is looked up, in
\* order, whatever fails for another index; the query succeeds, and its
\* result holds exactly one entry per index whose lookup, URI read and
\* decoding succeeded, in ascending index order.
C4_PerTokenIsolation ==
  (handler \in {"nftsPost", "nftsGet"} /\ Done /\ BalanceRead # <<>>) =>
    LET n == BalanceRead[1].tok IN
      /\ resp.status = HttpOk
      /\ resp.success
      /\ Len(TokenReads) = n
      /\ \A k \in 1..n : TokenReads[k].idx = k - 1
      /\ \A k \in 1..Len(GoodUriReads) : \A l \in 1..Len(GoodUriReads) :
           k < l => GoodUriReads[k].idx < GoodUriReads[l].idx
      /\ resp.count = Len(GoodUriReads)
      /\ resp.nfts = [k \in 1..Len(GoodUriReads) |->
                        WalletNft(GoodUriReads[k].tok, GoodUriReads[k].uri)]

\* index 1 of 3 fails, indices 0 and 2 are in the result
C4_Witness ==
  /\ handler = "nftsPost"
  /\ Done
  /\ BalanceRead # <<>>
  /\ BalanceRead[1].tok = 3
  /\ Len(TokenReads) = 3
  /\ ~TokenReads[2].ok
  /\ Len(resp.nfts) = 2
  /\ resp.nfts[1].tokenId = 7
  /\ resp.nfts[2].tokenId = 9

MintRoutes == {"mint", "mintWithKey"}

TrimmedKey == Trim(req.privateKey.s)

\* the request got as far as the checks of the key: the fields checked
\* before it are in order and getContract did not fail
KeyChecked ==
  \/ handler = "testKey"
  \/ /\ handler \in MintRoutes
     /\ Truthy(req.text)
     /\ ~MissingOrBlank(req.toAddress)
     /\ sdkLog # <<>> => sdkLog[1].ok

\* the message of the rejection states the trimmed length of the key
StatesTrimmedLength ==
  LET m == IF handler = "testKey" THEN resp.error ELSE resp.details IN
    /\ ~resp.success
    /\ m.text = InvalidLengthText
    /\ m.n = Len(TrimmedKey)

\* for the keys whose trimmed length is in `lengths`: no account is derived,
\* and the rejection states the trimmed length
LengthRejection(lengths) ==
  (KeyChecked /\ req.privateKey.def /\ Len(TrimmedKey) \in lengths) =>
    /\ SdkCalls({"privateKeyToAccount"}) = <<>>
    /\ pc \notin {"mint_account", "test_account"}
    /\ Done => StatesTrimmedLength

KeyLengths == 0..(KeyLenPrefixed + 2 + 2 * (MaxPad + 1))

C6_KeyFormatting ==
  (pc \in {"mint_account", "test_account"}) =>
    /\ (Len(TrimmedKey) = KeyLenPrefixed /\ StartsWith(TrimmedKey, OxPrefix)) =>
         /\ formattedPrivateKey = SubSeq(TrimmedKey, 3, Len(TrimmedKey))
         /\ Len(formattedPrivateKey) = KeyLenBare
    /\ Len(TrimmedKey) = KeyLenBare => formattedPrivateKey = TrimmedKey

\* C7: a key is accepted only as 64 characters without "0x" or as 66
\* characters with it, and the string handed to privateKeyToAccount is 64
\* characters long.
C7_KeyShape ==
  \A k \in 1..Len(sdkLog) :
    sdkLog[k].fn = "privateKeyToAccount" =>
      /\ Len(sdkLog[k].key) = KeyLenBare
      /\ \/ Len(TrimmedKey) = KeyLenBare /\ ~StartsWith(TrimmedKey, OxPrefix)
         \/ Len(TrimmedKey) = KeyLenPrefixed
              /\ StartsWith(TrimmedKey, OxPrefix)

\* C8 as stated: every JSON response has the field success.
C8_EveryJsonHasSuccess == resp.json => resp.hasSuccess

\* C8, amended: every JSON response except the 200 of GET /health has the
\* boolean field success, true exactly on the 200 responses.
C8_JsonHasSuccessButHealth ==
  resp.json =>
    /\ resp.hasSuccess <=> handler # "health"
    /\ resp.hasSuccess => (resp.success <=> resp.status = HttpOk)

\* the catch-all error middleware answers a body that does not parse
C8_Witness ==
  /\ Done
  /\ ~req.bodyOk
  /\ resp.json
  /\ resp.hasSuccess
  /\ resp.status = HttpServerError

SdkFns ==
  {"getContract", "readContract", "privateKeyToAccount",
   "prepareContractCall", "sendTransaction"}

\* the input of the request is missing or malformed for its route
InvalidInput ==
  \/ handler \in MintRoutes /\
       (\/ ~Truthy(req.text)
        \/ MissingOrBlank(req.privateKey)
        \/ MissingOrBlank(req.toAddress)
        \/ KeyLengthRejected(TrimmedKey))
  \/ handler = "prepare" /\ ~Truthy(req.text)
  \/ handler = "testKey" /\
       (~Truthy(req.privateKey) \/ KeyLengthRejected(TrimmedKey))
  \/ handler \in {"nftsPost", "nftsGet"} /\
       (~Truthy(req.walletAddress) \/ ~IsEthAddress(req.walletAddress.s))

\* C9: a request rejected for missing or malformed input (and not for a
\* failure of the SDK) is answered 400.
C9_ValidationIs400 ==
  (Done /\ InvalidInput /\ resp.hasSuccess /\ ~resp.success
     /\ resp.details.text \notin SdkFns) =>
    resp.status = HttpBadRequest

LastCall == sdkLog[Len(sdkLog)]

\* topics[3] of the first log of the receipt exists
HasTokenTopic(result) ==
  /\ result.receiptDef
  /\ result.logsDef
  /\ result.logs # <<>>
  /\ result.logs[1].topicsDef
  /\ Len(result.logs[1].topics) > TokenTopicIndex

\* C10: after a successful sendTransaction the response has status
\* "minted" and the transaction hash, and its tokenId is topics[3] of the
\* first log when that exists and the string "unknown" in every other case.
C10_TokenId ==
  (Done /\ sdkLog # <<>> /\ LastCall.fn = "sendTransaction" /\ LastCall.ok) =>
    /\ resp.status = HttpOk
    /\ resp.rstatus = "minted"
    /\ resp.transactionHash = LastCall.result.transactionHash
    /\ resp.tokenId =
         IF HasTokenTopic(LastCall.result)
         THEN Tok(LastCall.result.logs[1].topics[TokenTopicIndex + 1])
         ELSE Tok("unknown")

(* ---- wallet address format ---- *)
GatedWalletQuery ==
  req.server = "gated" /\ handler \in {"nftsPost", "nftsGet"}

\* "0x" followed by exactly 40 characters of 0-9, a-f, A-F
WellFormedAddress(a) ==
  /\ Len(a) = 2 + AddrHexLen
  /\ a[1] = "0"
  /\ a[2] = "x"
  /\ \A k \in 3..Len(a) : a[k] \in HexChars

InvalidFormatRejection ==
  /\ Done
  /\ resp.status = HttpBadRequest
  /\ resp.hasSuccess /\ ~resp.success
  /\ resp.error = Msg("Invalid wallet address format")
  /\ sdkLog = <<>>

\* getWalletNFTs was entered for the request
WalletQueryAccepted ==
  /\ resp.status # HttpBadRequest
  /\ pc = "enum_getContract" \/ sdkLog # <<>>

AddressVerdict ==
  IF WellFormedAddress(req.walletAddress.s)
  THEN WalletQueryAccepted
  ELSE InvalidFormatRejection

\* C11 as stated: on both wallet routes of the gated server every
\* walletAddress string is accepted exactly when it is "0x" and 40 hex
\* characters, and every other one is answered 400 "Invalid wallet address
\* format" without a contract read.
C11_AnyAddressString ==
  (GatedWalletQuery /\ req.walletAddress.def) => AddressVerdict

\* C11: on both wallet routes of the gated server every non-empty
\* walletAddress is accepted exactly when it is "0x" and 40 hex
\* characters, and every other non-empty one is answered 400 "Invalid
\* wallet address format" without a contract read.
C11_NonEmptyAddress ==
  (GatedWalletQuery /\ Truthy(req.walletAddress)) => AddressVerdict

\* an address one character too long is turned away on the POST route
C11_Witness ==
  /\ GatedWalletQuery
  /\ handler = "nftsPost"
  /\ req.walletAddress = Str(OxPrefix \o Hex40 \o <<"9">>)
  /\ InvalidFormatRejection

(* ---- masked wallet and rate-limit headers ---- *)
\* first 6 characters, "...", last 4 characters
Masked(a) ==
  SubSeq(a, 1, 6) \o <<".", ".", ".">> \o SubSeq(a, Len(a) - 3, Len(a))

\* C12: a successful wallet query of the gated server shows the address as
\* its first 6 characters, "..." and its last 4 characters, and the answer
\* of POST /api/nfts carries X-RateLimit-Limit: 100 and
\* X-RateLimit-Remaining: 99 however many requests were served before.
C12_MaskAndRateLimit ==
  (Done /\ GatedWalletQuery /\ resp.success) =>
    /\ resp.wallet = Masked(req.walletAddress.s)
    /\ req.walletAddress.s = GoodAddress =>
         resp.wallet = <<"0", "x", "1", "2", "3", "4", ".", ".", ".",
                         "5", "6", "7", "8">>
    /\ handler = "nftsPost" =>
         /\ <<"X-RateLimit-Limit", "100">> \in resp.headers
         /\ <<"X-RateLimit-Remaining", "99">> \in resp.headers

\* a successful POST that is not the first request of the process still
\* shows 99
C12_Witness ==
  /\ Done
  /\ GatedWalletQuery
  /\ handler = "nftsPost"
  /\ resp.success
  /\ served = MaxServed
  /\ req.walletAddress.s = GoodAddress
  /\ resp.wallet = Masked(GoodAddress)
  /\ <<"X-RateLimit-Remaining", "99">> \in resp.headers

(* ---- blank fields ---- *)
\* the request was answered 400 and no metadata was built for it
Rejected400 ==
  /\ Done
  /\ resp.status = HttpBadRequest
  /\ metadata = NoMetadata

\* C13: every route that requires text, privateKey, toAddress or
\* walletAddress answers 400 when the field is absent and when it is blank
\* after trimming; a prepare or mint request whose text is only whitespace
\* is answered 400 and no metadata is built.
C13_BlankFieldIs400 ==
  /\ (handler \in {"prepare", "mint", "mintWithKey"}
        /\ MissingOrBlank(req.text)) => Rejected400
  /\ (handler \in {"mint", "mintWithKey"}
        /\ (MissingOrBlank(req.privateKey) \/ MissingOrBlank(req.toAddress)))
       => Rejected400
  /\ (handler = "testKey" /\ MissingOrBlank(req.privateKey)) => Rejected400
  /\ (handler \in {"nftsPost", "nftsGet"}
        /\ MissingOrBlank(req.walletAddress)) => Rejected400

(* ---- checks before the SDK ---- *)
\* the request ended in an error that no SDK call raised: an answer of the
\* gate, a 400 of a route, or a check of the service functions
EndedInValidationOrAuthError ==
  /\ Done
  /\ resp.hasSuccess /\ ~resp.success
  /\ resp.details.text \notin SdkFns

\* C14: a request that ends in a validation or authentication error has
\* made no call of getContract, readContract, privateKeyToAccount,
\* prepareContractCall or sendTransaction.
C14_ChecksBeforeSdk ==
  EndedInValidationOrAuthError => SdkCalls(SdkFns) = <<>>

(* ---- upstream failures ---- *)
\* the prefix of the operation a handler runs
OperationPrefix ==
  IF handler = "contract" THEN InfoPrefix
  ELSE IF handler \in {"nftsPost", "nftsGet"} THEN FetchPrefix
  ELSE MintPrefix

\* the last SDK call of the request failed and the failure left the
\* service function: not one of the reads whose failure is absorbed (owner,
\* and the two reads of one token of a wallet), and not the key dry-run,
\* which reports the SDK's refusal of a key as invalid input
UpstreamFailure ==
  /\ Done
  /\ sdkLog # <<>>
  /\ ~LastCall.ok
  /\ LastCall.method \notin {"owner", "tokenOfOwnerByIndex", "tokenURI"}
  /\ handler # "testKey"

\* C15: a failure of the SDK that ends an operation is answered 500 with
\* success = false, a generic error text, and details made of the one
\* prefix of the operation followed by the message of the cause, the same
\* on every route that runs the operation.
C15_UpstreamIs500WithPrefix ==
  UpstreamFailure =>
    /\ resp.status = HttpServerError
    /\ resp.hasSuccess /\ ~resp.success
    /\ resp.error # NoMsg
    /\ resp.details = Wrap(OperationPrefix, SdkError(LastCall.fn))

(* ---- exceptions outside the route handlers ---- *)
\* the body of the request did not parse, and the request got as far as
\* express.json(), which passes the exception on with next(err)
UnhandledException ==
  /\ Done
  /\ ~req.bodyOk
  /\ req.server = "gated" =>
       GateStatus(req.apiKey, env.SERVER_API_KEY) = 0

\* C16: an exception raised outside the route handlers, such as the one of
\* the body parser, is answered once, with 500 and a JSON body that has
\* success = false and a generic error message.
C16_CatchAllIs500Json ==
  UnhandledException =>
    /\ resp.sends = 1
    /\ resp.status = HttpServerError
    /\ resp.json
    /\ resp.hasSuccess /\ ~resp.success
    /\ resp.error = Msg("Internal Server Error")
    /\ resp.details = NoMsg

(* ---- metadata round trip ---- *)
\* a prepare or mint route answered with the metadata it built
MetadataReturned ==
  /\ Done
  /\ handler \in {"prepare", "mint", "mintWithKey"}
  /\ resp.success

\* C17: the token URI the Metadata Builder produced starts with
\* "data:application/json;base64,"; the rest, base64-decoded, is the JSON
\* text of the metadata byte for byte and parses to the metadata that was
\* returned; and the entry the Wallet NFT Enumerator makes of that URI has
\* the same name, description and attributes.
C17_MetadataRoundTrip ==
  MetadataReturned =>
    LET tokenUri == UriOf(metadataUri) IN
      /\ StartsWith(metadataUri, DataPrefix)
      /\ DecodedText(metadataUri) = JsonStringify(resp.metadata)
      /\ tokenUri.parse = "object"
      /\ tokenUri.meta = resp.metadata
      /\ \A tokenId \in TokenIds :
           /\ WalletNft(tokenId, tokenUri).name = Name(resp.metadata.name)
           /\ WalletNft(tokenId, tokenUri).description
                = resp.metadata.description
           /\ WalletNft(tokenId, tokenUri).attributes
                = resp.metadata.attributes

\* a text with a quote, a backslash and a character beyond ASCII was
\* minted, and its URI decodes to that text
C17_Witness ==
  /\ MetadataReturned
  /\ handler = "mint"
  /\ resp.rstatus = "minted"
  /\ req.text = Str(SpecialText)
  /\ DecodedText(metadataUri) = JsonStringify(resp.metadata)
  /\ resp.metadata.attributes[1].value = SpecialText

(* ---- sequential reads of one enumeration ---- *)
PerIndexMethods == {"tokenOfOwnerByIndex", "tokenURI"}

\* the reads of single tokens that have settled, in the order they settled
SettledReads == SelectSeq(sdkLog, LAMBDA c : c.method \in PerIndexMethods)

\* both reads of index i are over: the URI read settled, or the lookup
\* failed
IndexOver(i) ==
  \E k \in 1..Len(SettledReads) :
    /\ SettledReads[k].idx = i
    /\ SettledReads[k].method = "tokenURI" \/ ~SettledReads[k].ok

\* C18: within one wallet enumeration at most one contract read is
\* outstanding at any time; the tokenURI read of index i is outstanding
\* only after the tokenOfOwnerByIndex read of index i has returned, and a
\* read of index i is outstanding only when the reads of every earlier
\* index are over and no later index has been read.
C18_SequentialReads ==
  /\ Len(pending) <= 1
  /\ \A k \in 1..Len(pending) :
       /\ \A j \in 0..(pending[k].idx - 1) : IndexOver(j)
       /\ \A j \in 1..Len(SettledReads) :
            SettledReads[j].idx <= pending[k].idx
       /\ IF pending[k].method = "tokenURI"
          THEN /\ LastCall.method = "tokenOfOwnerByIndex"
               /\ LastCall.idx = pending[k].idx
               /\ LastCall.ok
          ELSE \A j \in 1..Len(SettledReads) :
                 SettledReads[j].idx < pending[k].idx
  /\ \A k \in 1..Len(SettledReads) : \A l \in 1..Len(SettledReads) :
       k < l => SettledReads[k].idx <= SettledReads[l].idx

\* the tokenURI read of index 1 is outstanding, after the lookup of index 0
\* failed and the lookup of index 1 returned
C18_Witness ==
  /\ pending = <<Read("tokenURI", 1)>>
  /\ Len(SettledReads) = 2
  /\ ~SettledReads[1].ok
  /\ SettledReads[2].ok

(* ---- balance changing under the enumeration ---- *)
\* What an index reads is chosen anew at every read, so a lookup can fail
\* for an index that existed when balanceOf was read.
PerIndexPcs == {"enum_token", "enum_token_await", "enum_uri", "enum_uri_await"}

\* the steps the enumeration has left at most, for the balance it read
StepsLeft ==
  IF pc \in PerIndexPcs
  THEN 4 * (enumL.balanceNum - enumL.i)
         - (CASE pc = "enum_token" -> 0
              [] pc = "enum_token_await" -> 1
              [] pc = "enum_uri" -> 2
              [] pc = "enum_uri_await" -> 3)
  ELSE 0

EnumerationWithinBalance ==
  (handler \in {"nftsPost", "nftsGet"} /\ BalanceRead # <<>>) =>
    LET n == BalanceRead[1].tok IN
      /\ \A k \in 1..Len(SettledReads) : SettledReads[k].idx \in 0..(n - 1)
      /\ \A k \in 1..Len(pending) : pending[k].idx \in 0..(n - 1)
      /\ Len(enumL.nfts) <= enumL.i
      /\ enumL.i <= n
      /\ pc \in PerIndexPcs => (StepsLeft > 0 /\ ENABLED Next)
      /\ Done =>
           /\ resp.status = HttpOk
           /\ resp.success
           /\ {TokenReads[k].idx : k \in 1..Len(TokenReads)} = 0..(n - 1)
           /\ Len(TokenReads) = n
           /\ Len(resp.nfts) <= n

\* C19: whatever the per-index reads return after balanceOf returned n (an
\* index that no longer exists fails like any other), the enumeration
\* attempts exactly the indices 0..n-1, is never stuck, comes closer to its
\* end with every step, and ends in a successful response with at most n
\* entries.
C19_BalanceRace ==
  /\ []EnumerationWithinBalance
  /\ [][(pc \in PerIndexPcs) => (StepsLeft' < StepsLeft)]_vars

\* balanceOf returned 3 and every lookup after it failed, as when the
\* wallet was emptied in between: the request succeeds with no entries
C19_Witness ==
  /\ handler = "nftsGet"
  /\ Done
  /\ BalanceRead # <<>>
  /\ BalanceRead[1].tok = 3
  /\ Len(TokenReads) = 3
  /\ \A k \in 1..3 : ~TokenReads[k].ok
  /\ resp.success
  /\ resp.nfts = <<>>

(* ---- contract info ---- *)
\* a read of getContractInfo failed
InfoReadFailed(method) ==
  \E k \in 1..Len(sdkLog) : sdkLog[k].method = method /\ ~sdkLog[k].ok

\* the value the totalSupply read returned
SupplyRead ==
  SelectSeq(sdkLog, LAMBDA c : c.method = "totalSupply" /\ c.ok)

\* C20: GET /api/contract fails with 500 and returns no contract info at
\* all when the name, symbol or totalSupply read fails; when only the owner
\* read fails it succeeds with owner = "unknown"; and every successful
\* result has totalSupply as a string, the decimal text of the number read.
C20_ContractInfo ==
  (handler = "contract" /\ Done) =>
    IF \/ InfoReadFailed("name") \/ InfoReadFailed("symbol")
       \/ InfoReadFailed("totalSupply")
       \/ ~sdkLog[1].ok      \* getContract itself failed
    THEN /\ resp.status = HttpServerError
         /\ resp.hasSuccess /\ ~resp.success
         /\ resp.contract = NoContract
    ELSE /\ resp.status = HttpOk
         /\ resp.success
         /\ resp.contract.name = "Cruxz"
         /\ resp.contract.symbol = "CRUXZ"
         /\ resp.contract.owner =
              IF InfoReadFailed("owner") THEN "unknown" ELSE "0xowner"
         /\ resp.contract.totalSupply.type = "string"
         /\ SupplyRead # <<>>
         /\ resp.contract.totalSupply.text = ToString(SupplyRead[1].tok)

\* the owner read failed and the request succeeded with owner "unknown"
C20_Witness ==
  /\ handler = "contract"
  /\ Done
  /\ InfoReadFailed("owner")
  /\ resp.success
  /\ resp.contract.owner = "unknown"
  /\ resp.contract.totalSupply = StringOf(12)

(* ---- no retry in a mint ---- *)
\* the handlers that run mintTextNFT
MintHandlers == {"prepare", "mint", "mintWithKey"}

\* the SDK calls of mintTextNFT in the order of its code
MintSdkOrder ==
  <<"getContract", "privateKeyToAccount", "prepareContractCall",
    "sendTransaction">>

\* the SDK calls made so far are the first calls of mintTextNFT, each made
\* once and in the order of the code
MintCallsInOrder ==
  /\ Len(sdkLog) <= Len(MintSdkOrder)
  /\ \A k \in 1..Len(sdkLog) : sdkLog[k].fn = MintSdkOrder[k]

\* every call before the k-th succeeded
AllOkBefore(k) == \A j \in 1..(k - 1) : sdkLog[j].ok

\* the request ended in the 500 of the route's catch
MintErrorReturned ==
  /\ Done
  /\ resp.status = HttpServerError
  /\ resp.hasSuccess /\ ~resp.success

\* C21: a mint request never retries: within one request the transaction
\* is built at most once and sent at most once, sendTransaction is called
\* only after the checks of the key passed and getContract,
\* privateKeyToAccount and prepareContractCall all succeeded, and a failed
\* SDK call is the last SDK call of the request, which ends in the error.
C21_MintNeverRetries ==
  (handler \in MintHandlers) =>
    /\ Len(SdkCalls({"prepareContractCall"})) <= 1
    /\ Len(SdkCalls({"sendTransaction"})) <= 1
    /\ MintCallsInOrder
    /\ \A k \in 1..Len(sdkLog) :
         /\ (sdkLog[k].fn = "sendTransaction") =>
              /\ PerformMint(req.route)
              /\ MintCheckError(MintPrivateKey(req), MintToAddress(req))
                   = NoMsg
              /\ AllOkBefore(k)
              /\ k = Len(MintSdkOrder)
         /\ (~sdkLog[k].ok) =>
              /\ k = Len(sdkLog)
              /\ MintErrorReturned

\* the key passed, the account was derived, the transaction was built and
\* the one send failed: the request ended in the error after four calls
C21_Witness ==
  /\ handler = "mint"
  /\ Done
  /\ Len(sdkLog) = Len(MintSdkOrder)
  /\ AllOkBefore(Len(sdkLog))
  /\ sdkLog[Len(sdkLog)].fn = "sendTransaction"
  /\ ~sdkLog[Len(sdkLog)].ok
  /\ MintErrorReturned

====
